---- MODULE Spec2Model ----
(***************************************************************************)
(* Latency tracker (src/latency_tracker.c, src/wrapper/ht.h, the           *)
(* <linux/hashtable.h> variant of the index, ht.h lines 188-280).          *)
(*                                                                         *)
(* The tracker is modelled at the level of its pointers: the free list is  *)
(* a circular doubly linked list (struct list_head), every bucket of the   *)
(* index is an hlist, and an event record is the struct that memset()      *)
(* clears.  Caller threads, the GC timer handler and the per-event timeout *)
(* handlers are separate contexts that interleave between the statements   *)
(* where the code lets them.  smp says which build runs: on an SMP build a *)
(* spinlock taken twice by one context never returns; on a uniprocessor    *)
(* build spin_lock_irqsave only disables interrupts and preemption, so the *)
(* second acquisition goes through and a critical section excludes every   *)
(* other context.                                                          *)
(***************************************************************************)
EXTENDS Integers, Sequences, FiniteSets, TLC

(* ------------------------------ bounds -------------------------------- *)

\* max_events handed to latency_tracker_create (the pool's capacity).
MaxEvents == 2
\* The clock runs from 0 to MaxTime.
MaxTime == 2
\* Calls a single caller may make in one behaviour.
MaxOps == 4
\* Calls two concurrent callers may make in one behaviour.
MaxRaceOps == 3

(* ------------------------- program constants -------------------------- *)

Null == 0
\* LATENCY_TRACKER_MAX_KEY_SIZE, scaled down.
MaxKeySize == 2
\* HASH_SIZE(tracker->ht), scaled down.
NumBuckets == 2
\* jhash's range, scaled down.
HashSpace == 4

Records == 1..MaxEvents
\* &tracker->events_free_list, as a list node.
FreeHead == MaxEvents + 1
\* LIST_POISON1/2, what list_del leaves in the node it unlinks.
Poison == MaxEvents + 2

Threads == {"t1", "t2"}
GC == "gc"
Ctxs == Threads \cup {GC}
NoOwner == "none"

\* Keys the callers use.  <<1>> is a prefix of <<1, 4>> and both hash to 1;
\* <<2>> falls in the other bucket.
Keys == {<<1>>, <<1, 4>>, <<2>>}
\* A key longer than the buffer.
LongKey == [i \in 1..(MaxKeySize + 1) |-> 1]
Threshs == {1}
Timeouts == {0, 1}
Ids == {7}
GcValues == {0, 1}
\* What a caller hands to create as match_fct or hash_fct: NULL or a
\* function of its own.
FctArgs == {"NULL", "custom"}

NoTimer == 0 - 1

VARIABLES
    smp,        \* TRUE: SMP build; FALSE: uniprocessor build
    rhashtable, \* TRUE: built with RHASHTABLE (ht.h 36-187); FALSE: ht.h 188-280
    args,       \* the match_fct and hash_fct handed to latency_tracker_create
    now,        \* the monotonic clock
    tracker,    \* struct latency_tracker (without its lock)
    events,     \* the pool's records: struct latency_tracker_event
    lock,       \* tracker->lock: [owner, depth]
    wheel,      \* the kernel's pending timers: [ev: record -> expiry, gc: expiry]
    pc,         \* where each context (caller thread, GC handler) stands
    loc,        \* each context's arguments and local variables
    tpc,        \* where the timeout handler of each record stands
    ops,        \* calls made so far
    destroyed,  \* latency_tracker_destroy has freed the tracker
    kfreed,     \* the records latency_tracker_destroy_free_list has freed
    cbCount,    \* per record: callbacks invoked since the record was last opened
    destroys,   \* per record: latency_tracker_event_destroy runs since it was last opened
    fill        \* the fill-then-close scenario so far (see FillAfter...)

vars == <<smp, rhashtable, args, now, tracker, events, lock, wheel, pc, loc, tpc, ops, destroyed,
          kfreed, cbCount, destroys, fill>>

(* --------------------------- pure functions --------------------------- *)

RECURSIVE SumBytes(_, _)
SumBytes(key, n) == IF n = 0 THEN 0 ELSE key[n] + SumBytes(key, n - 1)

\* jhash(key, key_len, 0): a deterministic function of the first key_len
\* bytes, with collisions.
jhash(key, key_len) == SumBytes(key, key_len) % HashSpace

\* A hash function of the caller's own: here, the length of the key.
custom_hash(key, key_len) == key_len % HashSpace

\* hash_min(hkey, HASH_BITS(ht)): the bucket of a hash.
hash_min(hkey) == hkey % NumBuckets

\* The key buffer of a record: key_len bytes copied over a zeroed buffer.
ZeroKey == [i \in 1..MaxKeySize |-> 0]
memcpy_key(key) == [i \in 1..MaxKeySize |-> IF i <= Len(key) THEN key[i] ELSE 0]

\* memcmp(key1, key2, length): 0 when the first length bytes agree.
RECURSIVE memcmp_from(_, _, _, _)
memcmp_from(k1, k2, i, length) ==
    IF i > length THEN 0
    ELSE IF k1[i] < k2[i] THEN 0 - 1
    ELSE IF k1[i] > k2[i] THEN 1
    ELSE memcmp_from(k1, k2, i + 1, length)
memcmp(k1, k2, length) == memcmp_from(k1, k2, 1, length)

\* A match function of the caller's own: here, the first byte decides.
custom_match(k1, k2, length) == IF k1[1] = k2[1] THEN 0 ELSE 1

\* tracker->hash_fct(key, key_len, 0) and tracker->match_fct(key1, key2,
\* length) for a tracker tr whose pointers are set; a NULL pointer is the
\* caller's crash (see NullCall).
hash_fct(tr, key) ==
    IF tr.hash_fct = "jhash" THEN jhash(key, Len(key))
    ELSE custom_hash(key, Len(key))
match_fct(tr, k1, k2, length) ==
    IF tr.match_fct = "memcmp" THEN memcmp(k1, k2, length)
    ELSE custom_match(k1, k2, length)

\* (now - start_ts) > thresh on u64: when now < start_ts the difference wraps
\* to 2^64 - (start_ts - now), which exceeds every threshold of the model.
ElapsedExceeds(t_now, start_ts, thresh) ==
    IF t_now >= start_ts THEN (t_now - start_ts) > thresh ELSE TRUE

(* ------------------------------ the heap ------------------------------ *)

NullPP == <<"null", 0>>

\* What memset(e, 0, sizeof(*e)) and kzalloc leave.
ZeroEvent ==
    [list |-> [next |-> Null, prev |-> Null],
     hlist |-> [next |-> Null, pprev |-> NullPP],
     timer_entry |-> FALSE,
     hkey |-> 0, key |-> ZeroKey, start_ts |-> 0, end_ts |-> 0,
     thresh |-> 0, timeout |-> 0, cb_flag |-> "NONE", cb_out_id |-> 0,
     cb |-> FALSE]

\* A heap is [tr: tracker, ev: events, fault: a wild pointer was dereferenced].
Heap(tr, ev) == [tr |-> tr, ev |-> ev, fault |-> FALSE]

ListNext(h, n) ==
    IF n = FreeHead THEN h.tr.events_free_list.next
    ELSE IF n \in Records THEN h.ev[n].list.next ELSE Null
ListPrev(h, n) ==
    IF n = FreeHead THEN h.tr.events_free_list.prev
    ELSE IF n \in Records THEN h.ev[n].list.prev ELSE Null

SetListNext(h, n, v) ==
    IF n = FreeHead THEN [h EXCEPT !.tr.events_free_list.next = v]
    ELSE IF n \in Records THEN [h EXCEPT !.ev[n].list.next = v]
    ELSE [h EXCEPT !.fault = TRUE]
SetListPrev(h, n, v) ==
    IF n = FreeHead THEN [h EXCEPT !.tr.events_free_list.prev = v]
    ELSE IF n \in Records THEN [h EXCEPT !.ev[n].list.prev = v]
    ELSE [h EXCEPT !.fault = TRUE]

\* list_add(new, head): insert new right after the head.
list_add(h, new) ==
    LET next == ListNext(h, FreeHead)
        h1 == SetListPrev(h, next, new)
        h2 == SetListNext(h1, new, next)
        h3 == SetListPrev(h2, new, FreeHead)
    IN  SetListNext(h3, FreeHead, new)

\* list_del(entry).
list_del(h, e) ==
    LET prev == ListPrev(h, e)
        next == ListNext(h, e)
        h1 == SetListPrev(h, next, prev)
        h2 == SetListNext(h1, prev, next)
    IN  SetListPrev(SetListNext(h2, e, Poison), e, Poison)

list_empty(h) == ListNext(h, FreeHead) = FreeHead

\* hash_add(ht, &s->hlist, s->hkey) = hlist_add_head.
wrapper_ht_add(h, s) ==
    LET b == hash_min(h.ev[s].hkey)
        first == h.tr.ht[b]
        h1 == [h EXCEPT !.ev[s].hlist.next = first]
        h2 == IF first # Null THEN [h1 EXCEPT !.ev[first].hlist.pprev = <<"n", s>>]
              ELSE h1
    IN  [h2 EXCEPT !.tr.ht[b] = s, !.ev[s].hlist.pprev = <<"b", b>>]

\* rhashtable_lookup(&tracker->rht, &k): the first element of the bucket
\* of k whose hkey equals k (the table is keyed on hkey, ht.h 36-47), or NULL.
RECURSIVE rht_walk(_, _, _, _)
rht_walk(h, n, k, fuel) ==
    IF fuel = 0 \/ n \notin Records THEN Null
    ELSE IF h.ev[n].hkey = k THEN n
    ELSE rht_walk(h, h.ev[n].hlist.next, k, fuel - 1)
rhashtable_lookup(h, k) == rht_walk(h, h.tr.ht[hash_min(k)], k, MaxEvents + 1)

\* A faulty removal, kept for comparison: the record stays linked in its
\* bucket.
ht_del_leaving_linked(h, s) == h

\* hash_del(&s->hlist) = hlist_del_init: nothing when the node is unhashed.
wrapper_ht_del(h, s) ==
    LET pp == h.ev[s].hlist.pprev
        next == h.ev[s].hlist.next
        h1 == IF pp[1] = "b" THEN [h EXCEPT !.tr.ht[pp[2]] = next]
              ELSE [h EXCEPT !.ev[pp[2]].hlist.next = next]
        h2 == IF next # Null THEN [h1 EXCEPT !.ev[next].hlist.pprev = pp] ELSE h1
    IN  IF pp = NullPP THEN h
        ELSE [h2 EXCEPT !.ev[s].hlist.next = Null, !.ev[s].hlist.pprev = NullPP]

\* A faulty release, kept for comparison: the record is cleared but never
\* linked back into the free list.
put_event_without_list_add(h, e) ==
    [h EXCEPT !.ev[e] = ZeroEvent]

\* latency_tracker_put_event: clear the record, put it at the head of the
\* free list.
latency_tracker_put_event(h, e) ==
    list_add([h EXCEPT !.ev[e] = ZeroEvent], e)

\* A faulty acquisition, kept for comparison: when the pool is empty it
\* returns Null but has reset the head of the free list.
get_event_resetting_head(h) ==
    IF list_empty(h)
    THEN <<[h EXCEPT !.tr.events_free_list = [next |-> Null, prev |-> Null]], Null>>
    ELSE LET e == ListPrev(h, FreeHead)
         IN  IF e \in Records THEN <<list_del(h, e), e>>
             ELSE <<[h EXCEPT !.fault = TRUE], Null>>

\* latency_tracker_get_event: the last record of the free list, or Null.
\* Returns <<heap, e>>.
latency_tracker_get_event(h) ==
    IF list_empty(h) THEN <<h, Null>>
    ELSE LET e == ListPrev(h, FreeHead)
         IN  IF e \in Records THEN <<list_del(h, e), e>>
             ELSE <<[h EXCEPT !.fault = TRUE], Null>>

(* ------------------------------ the lock ------------------------------ *)

\* spin_lock_irqsave(&tracker->lock) can return for context c.
CanLock(c) == IF smp THEN lock.owner = NoOwner ELSE TRUE
Locked(c) == [owner |-> c, depth |-> lock.depth + 1]
\* spin_unlock_irqrestore(&tracker->lock).
Unlocked(l) ==
    IF l.depth <= 1 THEN [owner |-> NoOwner, depth |-> 0]
    ELSE [l EXCEPT !.depth = l.depth - 1]

HandlerActive == pc[GC] # "idle" \/ \E r \in Records : tpc[r] # "idle"

\* Context c may take a step.  On a uniprocessor build a critical section
\* (interrupts and preemption off) excludes everyone else, and a timer
\* handler runs to completion before the interrupted thread resumes.
Runnable(c) ==
    \/ smp
    \/ /\ lock.owner \in {NoOwner, c}
       /\ c \in Threads => ~HandlerActive
       /\ c = GC => \A r \in Records : tpc[r] = "idle"
TimeoutRunnable(r) ==
    \/ smp
    \/ /\ lock.owner = NoOwner
       /\ pc[GC] = "idle"
       /\ \A r2 \in Records \ {r} : tpc[r2] = "idle"
CanFire ==
    \/ smp
    \/ lock.owner = NoOwner /\ ~HandlerActive

\* latency_tracker_destroy has been called: its owner makes no other call.
Destroying == \E t \in Threads : loc[t].op = "destroy"

(* ------------------------------- ghosts ------------------------------- *)

Bump(n) == IF n >= 2 THEN 2 ELSE n + 1
\* The user callback runs on record r.
Called(r) == [cbCount EXCEPT ![r] = Bump(@)]

LocInit ==
    [op |-> "none", key |-> <<>>, thresh |-> 0, timeout |-> 0, unique |-> FALSE,
     id |-> 0, now |-> 0, s |-> Null, next |-> Null, bkt |-> 0, found |-> 0,
     nb |-> 0, ret |-> "NONE"]

\* The fill-then-close scenario of the capacity bound, as a monitor.  With
\* N = MaxEvents: fill = k <= N when k event_in calls have returned OK and
\* nothing has been retired and no close or destroy was called; N + 1 while
\* the one close_event after that runs alone; N + 2 once it returned FOUND;
\* N + 3 while the next event_in runs alone; N + 4 once that returned OK.
\* FillOff as soon as the behaviour leaves the scenario.
FillOff == 0 - 1
Alone(t) == \A t2 \in Threads \ {t} : pc[t2] = "idle"
FillAfterCallIn(t, key) ==
    IF fill \in 0..MaxEvents THEN fill
    ELSE IF fill = MaxEvents + 2 /\ Alone(t) /\ Len(key) <= MaxKeySize
    THEN MaxEvents + 3 ELSE FillOff
FillAfterCallOut(t) ==
    IF fill = MaxEvents /\ Alone(t) THEN MaxEvents + 1 ELSE FillOff
FillAfterSetGc == IF fill \in 0..MaxEvents THEN fill ELSE FillOff
FillAfterIn(t, ret) ==
    IF fill \in 0..(MaxEvents - 1) /\ ret = "OK" THEN fill + 1
    ELSE IF fill = MaxEvents /\ ret = "FULL" THEN fill
    ELSE IF fill = MaxEvents + 3 /\ ret = "OK" THEN MaxEvents + 4
    ELSE IF fill \in 0..MaxEvents /\ ret = "FULL" THEN fill
    ELSE FillOff
FillAfterOut(ret) ==
    IF fill = MaxEvents + 1 /\ ret = "FOUND" THEN MaxEvents + 2 ELSE FillOff
FillAfterDestroy(c) ==
    IF fill = MaxEvents + 1 /\ loc[c].op = "out" THEN fill ELSE FillOff

\* Callers are anonymous: the second thread calls only while the first is
\* inside a call.
CallerOk(t) == t = "t1" \/ pc["t1"] # "idle"

\* What a caller keeps of a call that returned.
Returned(op, ret) == [LocInit EXCEPT !.op = op, !.ret = ret]


(* -------------------------------- Init -------------------------------- *)

RECURSIVE FillFreeList(_, _)
\* latency_tracker_create's loop: list_add each of the max_events records.
FillFreeList(h, i) ==
    IF i > MaxEvents THEN h ELSE FillFreeList(list_add(h, i), i + 1)

\* The tracker right after kzalloc, INIT_LIST_HEAD and hash_init.
EmptyTracker(gc_period, gc_thresh) ==
    [events_free_list |-> [next |-> FreeHead, prev |-> FreeHead],
     ht |-> [b \in 0..(NumBuckets - 1) |-> Null],
     hash_fct |-> "NULL", match_fct |-> "NULL",
     gc_period |-> gc_period, gc_thresh |-> gc_thresh,
     timer_entry |-> gc_period # 0 /\ gc_thresh # 0]

\* latency_tracker_create(match_fct, hash_fct, MaxEvents, gc_period,
\* gc_thresh, NULL): a function pointer is written only when the argument
\* is NULL (latency_tracker.c 201-206).
latency_tracker_create(match, hash, gc_period, gc_thresh) ==
    LET tr0 == EmptyTracker(gc_period, gc_thresh)
        tr1 == IF hash = "NULL" THEN [tr0 EXCEPT !.hash_fct = "jhash"] ELSE tr0
        tr2 == IF match = "NULL" THEN [tr1 EXCEPT !.match_fct = "memcmp"] ELSE tr1
    IN  FillFreeList(Heap(tr2, [r \in Records |-> ZeroEvent]), 1)

Init ==
    /\ smp \in BOOLEAN
    /\ rhashtable \in BOOLEAN
    /\ args \in [match_fct : FctArgs, hash_fct : FctArgs]
    /\ now = 0
    /\ \E gc_period \in GcValues, gc_thresh \in GcValues :
         LET h == latency_tracker_create(args.match_fct, args.hash_fct,
                                         gc_period, gc_thresh)
         IN  /\ tracker = h.tr
             /\ events = h.ev
             /\ wheel = [ev |-> [r \in Records |-> NoTimer],
                         gc |-> IF gc_period # 0 /\ gc_thresh # 0
                                THEN gc_period ELSE NoTimer]
    /\ lock = [owner |-> NoOwner, depth |-> 0]
    /\ pc = [c \in Ctxs |-> "idle"]
    /\ loc = [c \in Ctxs |-> LocInit]
    /\ tpc = [r \in Records |-> "idle"]
    /\ ops = 0
    /\ destroyed = FALSE
    /\ kfreed = {}
    /\ cbCount = [r \in Records |-> 0]
    /\ destroys = [r \in Records |-> 0]
    /\ fill = 0

(* ------------------------------- clock -------------------------------- *)

\* The clock is read by trace_clock_monotonic_wrapper and as jiffies.  Time
\* passes between steps; it shows only where it is read, so a step that
\* reads the clock first lets it advance.
ClockReads == now..MaxTime
Later(a, b) == IF a >= b THEN a ELSE b

(* ---------------------- latency_tracker_event_in ---------------------- *)

\* The call, up to the key_len check (latency_tracker.c 282-289).
CallIn(t, key, thresh, timeout, unique) ==
    /\ pc[t] = "idle" /\ Runnable(t) /\ ~Destroying
    /\ CallerOk(t)
    /\ ops' = ops + 1
    /\ fill' = FillAfterCallIn(t, key)
    /\ LET l == [LocInit EXCEPT !.op = "in", !.key = key, !.thresh = thresh,
                                !.timeout = timeout, !.unique = unique]
       IN  IF Len(key) > MaxKeySize
           THEN /\ loc' = [loc EXCEPT ![t] = Returned("in", "ERR")]
                /\ pc' = pc
           ELSE /\ loc' = [loc EXCEPT ![t] = l]
                /\ pc' = [pc EXCEPT ![t] = "in_lock"]
    /\ UNCHANGED <<smp, rhashtable, args, now, tracker, events, lock, wheel, tpc, destroyed, kfreed,
                   cbCount, destroys>>

\* spin_lock_irqsave (291), then the branch on unique (296).
InLock(t) ==
    /\ pc[t] = "in_lock" /\ Runnable(t) /\ CanLock(t)
    /\ lock' = Locked(t)
    /\ IF loc[t].unique
       THEN IF tracker.hash_fct = "NULL"
            THEN /\ pc' = [pc EXCEPT ![t] = "oops"]
                 /\ loc' = loc
            ELSE IF rhashtable
            THEN /\ pc' = [pc EXCEPT ![t] = "ru_iter"]
                 /\ loc' = loc
            ELSE /\ pc' = [pc EXCEPT ![t] = "uq_iter"]
                 /\ loc' = [loc EXCEPT ![t].s =
                              tracker.ht[hash_min(hash_fct(tracker, loc[t].key))]]
       ELSE /\ pc' = [pc EXCEPT ![t] = "in_get"]
            /\ loc' = loc
    /\ UNCHANGED <<smp, rhashtable, args, now, tracker, events, wheel, tpc, ops, destroyed, kfreed,
                   cbCount, destroys, fill>>

\* wrapper_ht_unique_check, one node of the bucket (ht.h 270-273).
UniqueIter(t) ==
    /\ pc[t] = "uq_iter" /\ Runnable(t)
    /\ LET s == loc[t].s
       IN  IF s = Null
           THEN /\ pc' = [pc EXCEPT ![t] = "in_get"]
                /\ UNCHANGED <<loc, events>>
           ELSE IF tracker.match_fct = "NULL"
           THEN /\ pc' = [pc EXCEPT ![t] = "oops"]
                /\ UNCHANGED <<loc, events>>
           ELSE IF match_fct(tracker, loc[t].key, events[s].key,
                             Len(loc[t].key)) # 0
           THEN /\ loc' = [loc EXCEPT ![t].s = events[s].hlist.next]
                /\ UNCHANGED <<pc, events>>
           ELSE /\ loc' = [loc EXCEPT ![t].next = events[s].hlist.next]
                /\ events' = [events EXCEPT ![s].cb_flag = "UNIQUE"]
                /\ pc' = [pc EXCEPT ![t] = "uq_cb"]
    /\ UNCHANGED <<smp, rhashtable, args, now, tracker, lock, wheel, tpc, ops, destroyed, kfreed,
                   cbCount, destroys, fill>>

\* s->cb((unsigned long) s) in wrapper_ht_unique_check (ht.h 274-275).
UniqueCb(t) ==
    /\ pc[t] = "uq_cb" /\ Runnable(t)
    /\ cbCount' = Called(loc[t].s)
    /\ pc' = [pc EXCEPT ![t] = "ed_lock"]
    /\ UNCHANGED <<smp, rhashtable, args, now, tracker, events, lock, wheel, loc, tpc, ops, destroyed, kfreed,
                   destroys, fill>>

\* The record event_in fills (latency_tracker.c 305-321).
OpenedEvent(e, key, t_now, thresh, timeout) ==
    [e EXCEPT !.hkey = hash_fct(tracker, key), !.key = memcpy_key(key),
              !.start_ts = t_now, !.thresh = thresh, !.timeout = timeout,
              !.cb = TRUE, !.timer_entry = (timeout > 0)]

\* latency_tracker_get_event to the return (latency_tracker.c 299-329).
InGet(t) ==
    /\ pc[t] = "in_get" /\ Runnable(t)
    /\ LET g == latency_tracker_get_event(Heap(tracker, events))
           h == g[1]
           s == g[2]
           l == loc[t]
       IN  IF h.fault
           THEN /\ pc' = [pc EXCEPT ![t] = "oops"]
                /\ tracker' = h.tr /\ events' = h.ev
                /\ UNCHANGED <<now, lock, loc, wheel, cbCount, destroys, fill>>
           ELSE IF s = Null
           THEN /\ loc' = [loc EXCEPT ![t] = Returned("in", "FULL")]
                /\ pc' = [pc EXCEPT ![t] = "idle"]
                /\ lock' = Unlocked(lock)
                /\ fill' = FillAfterIn(t, "FULL")
                /\ tracker' = h.tr /\ events' = h.ev
                /\ UNCHANGED <<now, wheel, cbCount, destroys>>
           ELSE IF tracker.hash_fct = "NULL"
           THEN /\ pc' = [pc EXCEPT ![t] = "oops"]
                /\ tracker' = h.tr /\ events' = h.ev
                /\ UNCHANGED <<now, lock, loc, wheel, cbCount, destroys, fill>>
           ELSE \E n \in ClockReads :
                LET h1 == [h EXCEPT !.ev[s] =
                              OpenedEvent(@, l.key, n, l.thresh, l.timeout)]
                    h2 == wrapper_ht_add(h1, s)
                IN  /\ now' = n
                    /\ tracker' = h2.tr /\ events' = h2.ev
                    /\ wheel' = IF l.timeout > 0
                                THEN [wheel EXCEPT !.ev[s] = n + l.timeout]
                                ELSE wheel
                    /\ loc' = [loc EXCEPT ![t] = Returned("in", "OK")]
                    /\ pc' = [pc EXCEPT ![t] = "idle"]
                    /\ lock' = Unlocked(lock)
                    /\ cbCount' = [cbCount EXCEPT ![s] = 0]
                    /\ destroys' = [destroys EXCEPT ![s] = 0]
                    /\ fill' = FillAfterIn(t, "OK")
    /\ UNCHANGED <<smp, rhashtable, args, tpc, ops, destroyed, kfreed>>

(* --------------------- latency_tracker_event_out ---------------------- *)

\* The int event_out returns (latency_tracker.c 347-356), by its meaning.
OutRet(found) == IF found = 1 THEN "FOUND" ELSE "NOT_FOUND"

\* The call: the timestamp is taken before the lock (latency_tracker.c 344).
CallOut(t, key, id) ==
    /\ pc[t] = "idle" /\ Runnable(t) /\ ~Destroying
    /\ CallerOk(t)
    /\ ops' = ops + 1
    /\ fill' = FillAfterCallOut(t)
    /\ \E n \in ClockReads :
         /\ now' = n
         /\ loc' = [loc EXCEPT ![t] = [LocInit EXCEPT !.op = "out", !.key = key,
                                                      !.id = id, !.now = n]]
    /\ pc' = [pc EXCEPT ![t] = IF rhashtable THEN "rc_iter" ELSE "ce_lock"]
    /\ UNCHANGED <<smp, rhashtable, args, tracker, events, lock, wheel, tpc, destroyed, kfreed,
                   cbCount, destroys>>

\* wrapper_ht_check_event: the lock and the head of the bucket (ht.h 241-243).
CheckLock(t) ==
    /\ pc[t] = "ce_lock" /\ Runnable(t) /\ CanLock(t)
    /\ lock' = Locked(t)
    /\ IF tracker.hash_fct = "NULL"
       THEN /\ pc' = [pc EXCEPT ![t] = "oops"]
            /\ loc' = loc
       ELSE /\ loc' = [loc EXCEPT ![t].s =
                         tracker.ht[hash_min(hash_fct(tracker, loc[t].key))]]
            /\ pc' = [pc EXCEPT ![t] = "ce_iter"]
    /\ UNCHANGED <<smp, rhashtable, args, now, tracker, events, wheel, tpc, ops, destroyed, kfreed,
                   cbCount, destroys, fill>>

\* One node of the bucket (ht.h 243-250, 253), or the end of the loop
\* (ht.h 258-260 and latency_tracker.c 347-356).
CheckIter(t) ==
    /\ pc[t] = "ce_iter" /\ Runnable(t)
    /\ LET s == loc[t].s
           l == loc[t]
       IN  IF s = Null
           THEN /\ lock' = Unlocked(lock)
                /\ loc' = [loc EXCEPT ![t] = Returned("out", OutRet(l.found))]
                /\ fill' = FillAfterOut(OutRet(l.found))
                /\ pc' = [pc EXCEPT ![t] = "idle"]
                /\ events' = events
           ELSE IF tracker.match_fct = "NULL"
           THEN /\ pc' = [pc EXCEPT ![t] = "oops"]
                /\ UNCHANGED <<loc, events, lock, fill>>
           ELSE IF match_fct(tracker, l.key, events[s].key, Len(l.key)) # 0
           THEN /\ loc' = [loc EXCEPT ![t].s = events[s].hlist.next]
                /\ UNCHANGED <<pc, events, lock, fill>>
           ELSE IF ElapsedExceeds(l.now, events[s].start_ts, events[s].thresh)
           THEN /\ loc' = [loc EXCEPT ![t].next = events[s].hlist.next]
                /\ events' = [events EXCEPT ![s].end_ts = l.now,
                                            ![s].cb_flag = "NORMAL",
                                            ![s].cb_out_id = l.id]
                /\ pc' = [pc EXCEPT ![t] = "ce_cb"]
                /\ UNCHANGED <<lock, fill>>
           ELSE /\ loc' = [loc EXCEPT ![t].next = events[s].hlist.next]
                /\ lock' = Unlocked(lock)
                /\ pc' = [pc EXCEPT ![t] = "ed_lock"]
                /\ UNCHANGED <<events, fill>>
    /\ UNCHANGED <<smp, rhashtable, args, now, tracker, wheel, tpc, ops, destroyed, kfreed,
                   cbCount, destroys>>

\* s->cb((unsigned long) s), then the unlock (ht.h 250-253).
CheckCb(t) ==
    /\ pc[t] = "ce_cb" /\ Runnable(t)
    /\ cbCount' = Called(loc[t].s)
    /\ lock' = Unlocked(lock)
    /\ pc' = [pc EXCEPT ![t] = "ed_lock"]
    /\ UNCHANGED <<smp, rhashtable, args, now, tracker, events, wheel, loc, tpc, ops, destroyed, kfreed,
                   destroys, fill>>

\* The lock is taken again and the loop goes to the saved next (ht.h 256, 243).
CheckRelock(t) ==
    /\ pc[t] = "ce_relock" /\ Runnable(t) /\ CanLock(t)
    /\ lock' = Locked(t)
    /\ loc' = [loc EXCEPT ![t].s = loc[t].next]
    /\ pc' = [pc EXCEPT ![t] = "ce_iter"]
    /\ UNCHANGED <<smp, rhashtable, args, now, tracker, events, wheel, tpc, ops, destroyed, kfreed,
                   cbCount, destroys, fill>>

(* ------------------ the lookups of the rhashtable build ---------------- *)

\* One turn of the do/while of wrapper_ht_check_event (ht.h 143-159), or its
\* end and the return of event_out (ht.h 145-146, 160-162 and
\* latency_tracker.c 347-356).  The table is looked up again on every turn;
\* "continue" goes to the test "while (s)" with s set.
RhtCheckIter(t) ==
    /\ pc[t] = "rc_iter" /\ Runnable(t)
    /\ LET l == loc[t]
       IN  IF tracker.hash_fct = "NULL"
           THEN /\ pc' = [pc EXCEPT ![t] = "oops"]
                /\ UNCHANGED <<loc, events, fill>>
           ELSE
           LET s == rhashtable_lookup(Heap(tracker, events),
                                      hash_fct(tracker, l.key))
           IN  IF s = Null
               THEN /\ loc' = [loc EXCEPT ![t] = Returned("out", OutRet(l.found))]
                    /\ fill' = FillAfterOut(OutRet(l.found))
                    /\ pc' = [pc EXCEPT ![t] = "idle"]
                    /\ events' = events
               ELSE IF tracker.match_fct = "NULL"
               THEN /\ pc' = [pc EXCEPT ![t] = "oops"]
                    /\ UNCHANGED <<loc, events, fill>>
               ELSE IF match_fct(tracker, l.key, events[s].key, Len(l.key)) # 0
               THEN /\ loc' = [loc EXCEPT ![t].s = s]
                    /\ UNCHANGED <<pc, events, fill>>
               ELSE IF ElapsedExceeds(l.now, events[s].start_ts, events[s].thresh)
               THEN /\ loc' = [loc EXCEPT ![t].s = s]
                    /\ events' = [events EXCEPT ![s].end_ts = l.now,
                                                ![s].cb_flag = "NORMAL",
                                                ![s].cb_out_id = l.id]
                    /\ pc' = [pc EXCEPT ![t] = "rc_cb"]
                    /\ fill' = fill
               ELSE /\ loc' = [loc EXCEPT ![t].s = s]
                    /\ pc' = [pc EXCEPT ![t] = "ed_lock"]
                    /\ UNCHANGED <<events, fill>>
    /\ UNCHANGED <<smp, rhashtable, args, now, tracker, lock, wheel, tpc, ops, destroyed, kfreed,
                   cbCount, destroys>>

\* s->cb((unsigned long) s) in wrapper_ht_check_event (ht.h 153-154): no
\* tracker lock is held here.
RhtCheckCb(t) ==
    /\ pc[t] = "rc_cb" /\ Runnable(t)
    /\ cbCount' = Called(loc[t].s)
    /\ pc' = [pc EXCEPT ![t] = "ed_lock"]
    /\ UNCHANGED <<smp, rhashtable, args, now, tracker, events, lock, wheel, loc, tpc, ops, destroyed, kfreed,
                   destroys, fill>>

\* One turn of the do/while of wrapper_ht_unique_check (ht.h 173-184).
RhtUniqueIter(t) ==
    /\ pc[t] = "ru_iter" /\ Runnable(t)
    /\ LET s == rhashtable_lookup(Heap(tracker, events),
                                  hash_fct(tracker, loc[t].key))
       IN  IF s = Null
           THEN /\ pc' = [pc EXCEPT ![t] = "in_get"]
                /\ UNCHANGED <<loc, events>>
           ELSE IF tracker.match_fct = "NULL"
           THEN /\ pc' = [pc EXCEPT ![t] = "oops"]
                /\ UNCHANGED <<loc, events>>
           ELSE IF match_fct(tracker, loc[t].key, events[s].key,
                             Len(loc[t].key)) # 0
           THEN /\ loc' = [loc EXCEPT ![t].s = s]
                /\ UNCHANGED <<pc, events>>
           ELSE /\ loc' = [loc EXCEPT ![t].s = s]
                /\ events' = [events EXCEPT ![s].cb_flag = "UNIQUE"]
                /\ pc' = [pc EXCEPT ![t] = "uq_cb"]
    /\ UNCHANGED <<smp, rhashtable, args, now, tracker, lock, wheel, tpc, ops, destroyed, kfreed,
                   cbCount, destroys, fill>>

(* -------------------- latency_tracker_event_destroy ------------------- *)

\* Where a context goes on after latency_tracker_event_destroy returns.
AfterDestroy(c) ==
    CASE loc[c].op = "out" -> IF rhashtable THEN "rc_iter" ELSE "ce_relock"
      [] loc[c].op = "in" -> "in_get"
      [] loc[c].op = "gc" -> "gc_iter"
      [] OTHER -> "cl_iter"

\* spin_lock_irqsave in latency_tracker_event_destroy (latency_tracker.c 112).
DestroyLock(c) ==
    /\ pc[c] = "ed_lock" /\ Runnable(c) /\ CanLock(c)
    /\ lock' = Locked(c)
    /\ pc' = [pc EXCEPT ![c] = "ed_body"]
    /\ UNCHANGED <<smp, rhashtable, args, now, tracker, events, wheel, loc, tpc, ops, destroyed, kfreed,
                   cbCount, destroys, fill>>

\* wrapper_ht_del, del_timer, put_event, unlock (latency_tracker.c 113-117).
DestroyBody(c) ==
    /\ pc[c] = "ed_body" /\ Runnable(c)
    /\ LET s == loc[c].s
           h1 == wrapper_ht_del(Heap(tracker, events), s)
           del == events[s].timeout > 0 /\ events[s].timer_entry
           h2 == latency_tracker_put_event(h1, s)
       IN  /\ tracker' = h2.tr /\ events' = h2.ev
           /\ wheel' = IF del THEN [wheel EXCEPT !.ev[s] = NoTimer] ELSE wheel
           /\ destroys' = [destroys EXCEPT ![s] = Bump(@)]
           /\ fill' = FillAfterDestroy(c)
           /\ IF h2.fault
              THEN /\ pc' = [pc EXCEPT ![c] = "oops"]
                   /\ UNCHANGED <<lock, loc>>
              ELSE /\ lock' = Unlocked(lock)
                   /\ pc' = [pc EXCEPT ![c] = AfterDestroy(c)]
                   /\ loc' = [loc EXCEPT
                                ![c].found = IF loc[c].op = "out" THEN 1 ELSE @,
                                ![c].nb = IF loc[c].op = "destroy" /\ @ <= MaxEvents
                                          THEN @ + 1 ELSE @,
                                ![c].s = IF loc[c].op \in {"gc", "destroy"}
                                         THEN loc[c].next ELSE @]
    /\ UNCHANGED <<smp, rhashtable, args, now, tpc, ops, destroyed, kfreed, cbCount>>

(* --------------------------- the GC handler --------------------------- *)

\* latency_tracker_enable_gc: del_timer, then re-arm unless disabled
\* (latency_tracker.c 149-159).  Returns <<tracker, wheel>>.
latency_tracker_enable_gc(tr, wh, t_now) ==
    LET wh1 == IF tr.timer_entry THEN [wh EXCEPT !.gc = NoTimer] ELSE wh
    IN  IF tr.gc_period = 0 \/ tr.gc_thresh = 0
        THEN <<[tr EXCEPT !.timer_entry = FALSE], wh1>>
        ELSE <<[tr EXCEPT !.timer_entry = TRUE],
               [wh1 EXCEPT !.gc = t_now + tr.gc_period]>>

\* The GC timer expires: latency_tracker_gc_cb reads the clock
\* (latency_tracker.c 138).
GcFire ==
    /\ pc[GC] = "idle" /\ CanFire
    /\ wheel.gc # NoTimer
    /\ \E n \in Later(now, wheel.gc)..MaxTime :
         /\ now' = n
         /\ loc' = [loc EXCEPT ![GC] = [LocInit EXCEPT !.op = "gc", !.now = n]]
    /\ wheel' = [wheel EXCEPT !.gc = NoTimer]
    /\ tracker' = [tracker EXCEPT !.timer_entry = FALSE]
    /\ pc' = [pc EXCEPT ![GC] = "gc_lock"]
    /\ UNCHANGED <<smp, rhashtable, args, events, lock, tpc, ops, destroyed, kfreed,
                   cbCount, destroys, fill>>

\* spin_lock_irqsave in latency_tracker_gc_cb (139), first bucket (ht.h 220).
GcLock ==
    /\ pc[GC] = "gc_lock" /\ Runnable(GC) /\ CanLock(GC)
    /\ lock' = Locked(GC)
    /\ loc' = [loc EXCEPT ![GC].bkt = 0, ![GC].s = tracker.ht[0]]
    /\ pc' = [pc EXCEPT ![GC] = "gc_iter"]
    /\ UNCHANGED <<smp, rhashtable, args, now, tracker, events, wheel, tpc, ops, destroyed, kfreed,
                   cbCount, destroys, fill>>

\* wrapper_ht_gc, one node (ht.h 220-224); at the end of the last bucket,
\* latency_tracker_enable_gc and the unlock (latency_tracker.c 141-142).
GcIter ==
    /\ pc[GC] = "gc_iter" /\ Runnable(GC)
    /\ LET s == loc[GC].s
           l == loc[GC]
       IN  IF s = Null /\ l.bkt < NumBuckets - 1
           THEN /\ loc' = [loc EXCEPT ![GC].bkt = l.bkt + 1,
                                      ![GC].s = tracker.ht[l.bkt + 1]]
                /\ UNCHANGED <<now, pc, events, tracker, wheel, lock>>
           ELSE IF s = Null
           THEN \E n \in ClockReads :
                LET g == latency_tracker_enable_gc(tracker, wheel, n)
                IN  /\ now' = n
                    /\ tracker' = g[1] /\ wheel' = g[2]
                    /\ lock' = Unlocked(lock)
                    /\ pc' = [pc EXCEPT ![GC] = "idle"]
                    /\ loc' = [loc EXCEPT ![GC].next = Null]
                    /\ events' = events
           ELSE IF ElapsedExceeds(l.now, events[s].start_ts, tracker.gc_thresh)
           THEN /\ loc' = [loc EXCEPT ![GC].next = events[s].hlist.next]
                /\ events' = [events EXCEPT ![s].end_ts = l.now,
                                            ![s].cb_flag = "GC"]
                /\ pc' = [pc EXCEPT ![GC] = "gc_cb"]
                /\ UNCHANGED <<now, tracker, wheel, lock>>
           ELSE /\ loc' = [loc EXCEPT ![GC].next = events[s].hlist.next]
                /\ pc' = [pc EXCEPT ![GC] = "ed_lock"]
                /\ UNCHANGED <<now, events, tracker, wheel, lock>>
    /\ UNCHANGED <<smp, rhashtable, args, tpc, ops, destroyed, kfreed,
                   cbCount, destroys, fill>>

\* s->cb((unsigned long) s) in wrapper_ht_gc (ht.h 224-225).
GcCb ==
    /\ pc[GC] = "gc_cb" /\ Runnable(GC)
    /\ cbCount' = Called(loc[GC].s)
    /\ pc' = [pc EXCEPT ![GC] = "ed_lock"]
    /\ UNCHANGED <<smp, rhashtable, args, now, tracker, events, lock, wheel, loc, tpc, ops, destroyed,
                   kfreed, destroys, fill>>

\* latency_tracker_set_gc_thresh / latency_tracker_set_gc_period
\* (latency_tracker.c 162-182).
SetGc(t, field, v) ==
    /\ pc[t] = "idle" /\ Runnable(t) /\ ~Destroying
    /\ CanLock(t) /\ CallerOk(t)
    /\ ops' = ops + 1
    /\ fill' = FillAfterSetGc
    /\ \E n \in ClockReads :
         LET tr == IF field = "gc_thresh" THEN [tracker EXCEPT !.gc_thresh = v]
                   ELSE [tracker EXCEPT !.gc_period = v]
             g == latency_tracker_enable_gc(tr, wheel, n)
         IN  now' = n /\ tracker' = g[1] /\ wheel' = g[2]
    /\ loc' = [loc EXCEPT ![t] = Returned(field, "NONE")]
    /\ UNCHANGED <<smp, rhashtable, args, events, lock, pc, tpc, destroyed, kfreed,
                   cbCount, destroys>>

(* ------------------------ the timeout handler ------------------------- *)

\* The timer of record r expires and the kernel calls its function.  A
\* record cleared while its timer was pending has no function left.
TimeoutFire(r) ==
    /\ tpc[r] = "idle" /\ CanFire
    /\ wheel.ev[r] # NoTimer /\ wheel.ev[r] <= MaxTime
    /\ now' = Later(now, wheel.ev[r])
    /\ wheel' = [wheel EXCEPT !.ev[r] = NoTimer]
    /\ IF events[r].timer_entry
       THEN /\ events' = [events EXCEPT ![r].timer_entry = FALSE]
            /\ tpc' = [tpc EXCEPT ![r] = "to_del"]
       ELSE /\ events' = events
            /\ tpc' = [tpc EXCEPT ![r] = "oops"]
    /\ UNCHANGED <<smp, rhashtable, args, tracker, lock, pc, loc, ops, destroyed, kfreed,
                   cbCount, destroys, fill>>

\* del_timer(&data->timer) (latency_tracker.c 264).
TimeoutDel(r) ==
    /\ tpc[r] = "to_del" /\ TimeoutRunnable(r)
    /\ IF events[r].timer_entry
       THEN /\ wheel' = [wheel EXCEPT !.ev[r] = NoTimer]
            /\ events' = [events EXCEPT ![r].timer_entry = FALSE]
       ELSE UNCHANGED <<wheel, events>>
    /\ tpc' = [tpc EXCEPT ![r] = "to_write"]
    /\ UNCHANGED <<smp, rhashtable, args, now, tracker, lock, pc, loc, ops, destroyed, kfreed,
                   cbCount, destroys, fill>>

\* A faulty handler, kept for comparison: it clears the timeout but leaves
\* cb_flag as it was.
TimeoutWriteWithoutFlag(r) ==
    /\ tpc[r] = "to_write" /\ TimeoutRunnable(r)
    /\ events' = [events EXCEPT ![r].timeout = 0]
    /\ tpc' = [tpc EXCEPT ![r] = "to_cb"]
    /\ UNCHANGED <<smp, rhashtable, args, now, tracker, lock, wheel, pc, loc, ops, destroyed, kfreed,
                   cbCount, destroys, fill>>

\* data->cb_flag = LATENCY_TRACKER_CB_TIMEOUT; data->timeout = 0 (265-266).
TimeoutWrite(r) ==
    /\ tpc[r] = "to_write" /\ TimeoutRunnable(r)
    /\ events' = [events EXCEPT ![r].cb_flag = "TIMEOUT", ![r].timeout = 0]
    /\ tpc' = [tpc EXCEPT ![r] = "to_cb"]
    /\ UNCHANGED <<smp, rhashtable, args, now, tracker, lock, wheel, pc, loc, ops, destroyed, kfreed,
                   cbCount, destroys, fill>>

\* A faulty handler, kept for comparison: after the callback it retires the
\* event itself.
TimeoutCbRetiring(r) ==
    /\ tpc[r] = "to_cb" /\ TimeoutRunnable(r)
    /\ cbCount' = Called(r)
    /\ tpc' = [tpc EXCEPT ![r] = "idle"]
    /\ LET h == latency_tracker_put_event(
                    wrapper_ht_del(Heap(tracker, events), r), r)
       IN  tracker' = h.tr /\ events' = h.ev
    /\ UNCHANGED <<smp, rhashtable, args, now, lock, wheel, pc, loc, ops, destroyed,
                   kfreed, destroys, fill>>

\* data->cb(ptr) (latency_tracker.c 269): a cleared record has a NULL cb.
TimeoutCb(r) ==
    /\ tpc[r] = "to_cb" /\ TimeoutRunnable(r)
    /\ IF events[r].cb
       THEN /\ cbCount' = Called(r)
            /\ tpc' = [tpc EXCEPT ![r] = "idle"]
       ELSE /\ cbCount' = cbCount
            /\ tpc' = [tpc EXCEPT ![r] = "oops"]
    /\ UNCHANGED <<smp, rhashtable, args, now, tracker, events, lock, wheel, pc, loc, ops, destroyed,
                   kfreed, destroys, fill>>

(* ---------------------- latency_tracker_destroy ----------------------- *)

\* The call: del_timer(&tracker->timer), then wrapper_ht_clear starts
\* (latency_tracker.c 248-249, ht.h 205).
CallDestroy(t) ==
    /\ pc[t] = "idle" /\ Runnable(t) /\ ~Destroying
    /\ \A t2 \in Threads : pc[t2] = "idle"
    /\ CallerOk(t)
    /\ ops' = ops + 1
    /\ fill' = FillOff
    /\ wheel' = IF tracker.timer_entry THEN [wheel EXCEPT !.gc = NoTimer] ELSE wheel
    /\ tracker' = [tracker EXCEPT !.timer_entry = FALSE]
    /\ loc' = [loc EXCEPT ![t] = [LocInit EXCEPT !.op = "destroy",
                                                 !.s = tracker.ht[0]]]
    /\ pc' = [pc EXCEPT ![t] = "cl_iter"]
    /\ UNCHANGED <<smp, rhashtable, args, now, events, lock, tpc, destroyed, kfreed,
                   cbCount, destroys>>

\* wrapper_ht_clear, one node (ht.h 205-206); after the last bucket the lock
\* of latency_tracker_destroy (latency_tracker.c 251).
ClearIter(t) ==
    /\ pc[t] = "cl_iter" /\ Runnable(t)
    /\ LET s == loc[t].s
           l == loc[t]
       IN  IF s = Null /\ l.bkt < NumBuckets - 1
           THEN /\ loc' = [loc EXCEPT ![t].bkt = l.bkt + 1,
                                      ![t].s = tracker.ht[l.bkt + 1]]
                /\ pc' = pc
           ELSE IF s = Null
           THEN /\ pc' = [pc EXCEPT ![t] = "df_lock"]
                /\ loc' = loc
           ELSE /\ loc' = [loc EXCEPT ![t].next = events[s].hlist.next]
                /\ pc' = [pc EXCEPT ![t] = "ed_lock"]
    /\ UNCHANGED <<smp, rhashtable, args, now, tracker, events, lock, wheel, tpc, ops, destroyed,
                   kfreed, cbCount, destroys, fill>>

\* spin_lock_irqsave (251) and the head of the free list (125).
FreeLock(t) ==
    /\ pc[t] = "df_lock" /\ Runnable(t) /\ CanLock(t)
    /\ lock' = Locked(t)
    /\ LET e == tracker.events_free_list.next
       IN  loc' = [loc EXCEPT ![t].s = e,
                              ![t].next = ListNext(Heap(tracker, events), e)]
    /\ pc' = [pc EXCEPT ![t] = "df_iter"]
    /\ UNCHANGED <<smp, rhashtable, args, now, tracker, events, wheel, tpc, ops, destroyed, kfreed,
                   cbCount, destroys, fill>>

\* latency_tracker_destroy_free_list, one record (125-128); at the end the
\* unlock and kfree(tracker) (253-254).
FreeIter(t) ==
    /\ pc[t] = "df_iter" /\ Runnable(t)
    /\ LET e == loc[t].s
           h == list_del(Heap(tracker, events), e)
       IN  IF e = FreeHead
           THEN /\ lock' = Unlocked(lock)
                /\ destroyed' = TRUE
                /\ pc' = [pc EXCEPT ![t] = "idle"]
                /\ loc' = [loc EXCEPT ![t] = [Returned("destroy", "DESTROYED")
                                                 EXCEPT !.nb = loc[t].nb]]
                /\ UNCHANGED <<tracker, events, kfreed>>
           ELSE IF e \notin Records \/ h.fault
           THEN /\ pc' = [pc EXCEPT ![t] = "oops"]
                /\ UNCHANGED <<tracker, events, kfreed, lock, loc, destroyed>>
           ELSE /\ tracker' = h.tr /\ events' = h.ev
                /\ kfreed' = kfreed \cup {e}
                /\ loc' = [loc EXCEPT ![t].s = loc[t].next,
                                      ![t].next = ListNext(h, loc[t].next)]
                /\ UNCHANGED <<pc, lock, destroyed>>
    /\ UNCHANGED <<smp, rhashtable, args, now, wheel, tpc, ops, cbCount, destroys, fill>>

(* -------------------------------- Next -------------------------------- *)

\* T: the threads that call; B: the calls they may make; U: the values of
\* unique they pass.
NextIn(T, B, U) ==
    \/ \E t \in T, key \in Keys, thresh \in Threshs, timeout \in Timeouts,
          unique \in U :
         ops < B /\ CallIn(t, key, thresh, timeout, unique)
    \/ \E t \in T : ops < B /\ CallIn(t, LongKey, 1, 0, FALSE)
    \/ \E t \in T : InLock(t)
    \/ \E t \in T : InGet(t)

NextUnique(T) ==
    \/ \E t \in T : UniqueIter(t)
    \/ \E t \in T : UniqueCb(t)

NextOut(T, B) ==
    \/ \E t \in T, key \in Keys, id \in Ids : ops < B /\ CallOut(t, key, id)
    \/ \E t \in T : CheckLock(t)
    \/ \E t \in T : CheckIter(t)
    \/ \E t \in T : CheckCb(t)
    \/ \E t \in T : CheckRelock(t)

\* The lookups of the rhashtable build.
NextRhtUnique(T) ==
    \/ \E t \in T : RhtUniqueIter(t)
    \/ \E t \in T : UniqueCb(t)

NextRhtOut(T, B) ==
    \/ \E t \in T, key \in Keys, id \in Ids : ops < B /\ CallOut(t, key, id)
    \/ \E t \in T : RhtCheckIter(t)
    \/ \E t \in T : RhtCheckCb(t)

NextEventDestroy(C) ==
    \/ \E c \in C : DestroyLock(c)
    \/ \E c \in C : DestroyBody(c)

NextGc ==
    \/ GcFire
    \/ GcLock
    \/ GcIter
    \/ GcCb

NextSetGc(T, B) ==
    \E t \in T, field \in {"gc_thresh", "gc_period"}, v \in GcValues :
      ops < B /\ SetGc(t, field, v)

NextTimeout ==
    \/ \E r \in Records : TimeoutFire(r)
    \/ \E r \in Records : TimeoutDel(r)
    \/ \E r \in Records : TimeoutWrite(r)
    \/ \E r \in Records : TimeoutCb(r)

NextDestroy(T, B) ==
    \/ \E t \in T : ops < B /\ CallDestroy(t)
    \/ \E t \in T : ClearIter(t)
    \/ \E t \in T : FreeLock(t)
    \/ \E t \in T : FreeIter(t)

\* The whole tracker: two callers, every entry point, both timers.
Next ==
    \/ NextIn(Threads, MaxRaceOps, BOOLEAN)
    \/ NextUnique(Threads)
    \/ NextOut(Threads, MaxRaceOps)
    \/ NextRhtUnique(Threads)
    \/ NextRhtOut(Threads, MaxRaceOps)
    \/ NextEventDestroy(Ctxs)
    \/ NextGc
    \/ NextSetGc(Threads, MaxRaceOps)
    \/ NextTimeout
    \/ NextDestroy(Threads, MaxRaceOps)

Spec == Init /\ [][Next]_vars

\* The collector disabled at creation and never enabled.
\* The hashtable build with create(NULL, NULL, ...): jhash and memcmp.
InitDefault ==
    /\ Init
    /\ ~rhashtable
    /\ args = [match_fct |-> "NULL", hash_fct |-> "NULL"]
InitNoGc == InitDefault /\ tracker.gc_period = 0 /\ tracker.gc_thresh = 0

\* Two callers that open (never unique) and close concurrently, and the
\* timeout handlers.
NextRace ==
    \/ NextIn(Threads, MaxRaceOps, {FALSE})
    \/ NextOut(Threads, MaxRaceOps)
    \/ NextEventDestroy(Threads)
    \/ NextTimeout
SpecRace == InitNoGc /\ [][NextRace]_vars

\* One caller that opens (unique or not) and closes, and the timeout
\* handlers.
NextSeq ==
    \/ NextIn({"t1"}, MaxOps, BOOLEAN)
    \/ NextUnique({"t1"})
    \/ NextOut({"t1"}, MaxOps)
    \/ NextEventDestroy({"t1"})
    \/ NextTimeout
SpecSeq == InitNoGc /\ [][NextSeq]_vars

\* One caller that opens (never unique) and closes, and the collector.
InitGc == InitDefault /\ tracker.gc_period # 0 /\ tracker.gc_thresh # 0
NextSweep ==
    \/ NextIn({"t1"}, MaxOps, {FALSE})
    \/ NextOut({"t1"}, MaxOps)
    \/ NextEventDestroy({"t1", GC})
    \/ NextGc
    \/ NextTimeout
SpecSweep == InitGc /\ [][NextSweep]_vars

(* ------------------------- views of the heap -------------------------- *)

RECURSIVE FreeWalk(_, _)
\* The records met following list.next from node n, at most fuel of them.
FreeWalk(n, fuel) ==
    IF fuel = 0 \/ n \notin Records THEN <<>>
    ELSE <<n>> \o FreeWalk(events[n].list.next, fuel - 1)
\* The free list as list_for_each_entry would walk it.
FreeList == FreeWalk(tracker.events_free_list.next, MaxEvents + 1)

RECURSIVE BucketWalk(_, _)
\* The records met following hlist.next from record n, at most fuel of them.
BucketWalk(n, fuel) ==
    IF fuel = 0 \/ n \notin Records THEN <<>>
    ELSE <<n>> \o BucketWalk(events[n].hlist.next, fuel - 1)
\* Bucket b as hlist_for_each_entry would walk it.
Bucket(b) == BucketWalk(tracker.ht[b], MaxEvents + 1)

Buckets == 0..(NumBuckets - 1)
Occurrences(seq, r) == Cardinality({i \in 1..Len(seq) : seq[i] = r})
RECURSIVE SumOver(_, _)
SumOver(f, S) ==
    IF S = {} THEN 0
    ELSE LET x == CHOOSE y \in S : TRUE IN f[x] + SumOver(f, S \ {x})
\* How many times record r is linked in the index.
InIndex(r) == SumOver([b \in Buckets |-> Occurrences(Bucket(b), r)], Buckets)
InFree(r) == Occurrences(FreeList, r)
\* The free list closes on its head and its prev pointers mirror its next.
FreeListClosed ==
    LET w == FreeList
        last == IF Len(w) = 0 THEN FreeHead ELSE w[Len(w)]
    IN  /\ Len(w) <= MaxEvents
        /\ (IF Len(w) = 0 THEN tracker.events_free_list.next
            ELSE events[last].list.next) = FreeHead
        /\ tracker.events_free_list.prev = last
        /\ \A i \in 1..Len(w) :
             events[w[i]].list.prev = (IF i = 1 THEN FreeHead ELSE w[i - 1])
\* The events of the index whose key buffer holds key.
WithKey(key) == {r \in Records : InIndex(r) > 0 /\ events[r].key = memcpy_key(key)}

(* ------------------------------- claims ------------------------------- *)

\* C1 (as claimed): at-most-once retirement.  For every event created by a
\* successful open, latency_tracker_event_destroy (detach from the index
\* and release to the pool) runs at most once over the event's lifetime,
\* whatever close_event calls, timeouts and sweeps race for it.
C1_AtMostOnceRetirement == \A r \in Records : destroys[r] <= 1

\* C2 (as claimed): no double-fire.  The user callback is invoked at most
\* once over the lifetime of an event, in any sequence of timeout firing,
\* close_event and duplicate-key eviction.
C2_NoDoubleFire == \A r \in Records : cbCount[r] <= 1

\* C3 (as claimed): pool/index partition.  Whenever the tracker lock is not
\* held, every record is exactly once in the free list or exactly once in
\* the index, so |free list| + |index| = capacity, and a record of the
\* free list has no pending timeout timer.
C3_PoolIndexPartition ==
    lock.owner = NoOwner =>
        /\ FreeListClosed
        /\ \A r \in Records : InFree(r) + InIndex(r) = 1
        /\ \A r \in Records : InFree(r) > 0 => wheel.ev[r] = NoTimer

\* C4 (as claimed): capacity bound.  After MaxEvents opens returned OK with
\* nothing retired in between, an open returns FULL (not OK); and once a
\* close_event of one of those events has returned FOUND, the next open
\* returns OK.
C4_CapacityBound ==
    [][\A t \in Threads :
         (pc[t] = "in_get" /\ pc'[t] = "idle") =>
             /\ fill = MaxEvents => loc'[t].ret = "FULL"
             /\ fill = MaxEvents + 3 => loc'[t].ret = "OK"]_vars
\* The pool was filled, one event was closed (FOUND) and the next open
\* returned OK.
C4_Witness == fill = MaxEvents + 4 /\ loc["t1"].ret = "OK"

\* C5 (as claimed): threshold semantics of close_event.  The callback of a
\* matched event is invoked only if now - start_ts > thresh, for the now
\* sampled at the call, and when it is invoked the event carries
\* cb_flag = NORMAL (explicit close), cb_out_id = the caller's id and
\* end_ts = now.
C5_ThresholdSemantics ==
    \A t \in Threads :
        pc[t] = "ce_cb" =>
            LET s == events[loc[t].s]
            IN  /\ ElapsedExceeds(loc[t].now, s.start_ts, s.thresh)
                /\ s.cb_flag = "NORMAL"
                /\ s.cb_out_id = loc[t].id
                /\ s.end_ts = loc[t].now

\* Context c spins in latency_tracker_event_destroy on the lock it holds
\* itself: on a multiprocessor build it never gets past that line.
SelfDeadlock(c) == smp /\ pc[c] = "ed_lock" /\ lock.owner = c

\* C6 (as claimed): uniqueness.  An open with the unique flag set, for a key
\* that is already open, completes: it never waits for a lock it holds
\* itself, and when it goes on to take its record the event it evicted has
\* had its callback invoked and is detached and back in the pool.
C6_UniqueEviction ==
    \A t \in Threads :
        (loc[t].op = "in" /\ loc[t].unique) =>
            /\ ~SelfDeadlock(t)
            /\ (pc[t] = "in_get" /\ loc[t].s # Null) =>
                   /\ cbCount[loc[t].s] >= 1
                   /\ InIndex(loc[t].s) = 0
                   /\ InFree(loc[t].s) = 1

\* C7 (as claimed): single event per key in unique mode.  Immediately after
\* an open of key k with the unique flag set returns OK, the index holds
\* exactly one event whose key is k.
C7_UniqueSingleEvent ==
    [][\A t \in Threads, k \in Keys :
         (/\ pc[t] = "in_get" /\ pc'[t] = "idle"
          /\ loc[t].unique /\ loc[t].key = k
          /\ loc'[t].ret = "OK") =>
             Cardinality(WithKey(k))' = 1]_vars

\* C8 (as claimed): collision handling.  For distinct keys with identical
\* hashes, one of them possibly a prefix of the other, close_event(k1)
\* calls back and retires only events whose key is k1.
C8_CollisionHandling ==
    \A t \in Threads :
        (loc[t].op = "out" /\ pc[t] \in {"ce_cb", "ed_lock", "ed_body"}) =>
            events[loc[t].s].key = memcpy_key(loc[t].key)

\* C9 (as claimed): GC sweep.  An event whose age exceeds gc_thresh at a
\* sweep has its callback invoked with cb_flag = GC and end_ts = the
\* sweep's timestamp, and the sweep goes on to remove it from the index:
\* it does not stop for ever on the line that retires the event.
C9_GcSweepRetires ==
    (pc[GC] = "ed_lock" /\ events[loc[GC].s].cb_flag = "GC") =>
        /\ cbCount[loc[GC].s] >= 1
        /\ events[loc[GC].s].end_ts = loc[GC].now
        /\ ~SelfDeadlock(GC)

\* C10 (as claimed): GC respects the threshold.  A sweep detaches an event
\* only if its age at the sweep, now - start_ts, exceeds gc_thresh.
C10_GcRespectsThreshold ==
    pc[GC] = "ed_body" =>
        ElapsedExceeds(loc[GC].now, events[loc[GC].s].start_ts, tracker.gc_thresh)

(* --------------------- opens that are never closed -------------------- *)

\* One caller that only opens events, GC disabled: every event stays open.
NextOpen == NextIn({"t1"}, MaxOps, {FALSE}) \/ NextTimeout
SpecOpen == InitNoGc /\ [][NextOpen]_vars

\* C11: timeout firing.  For an event opened with timeout D > 0 and never
\* closed (GC disabled): until its timer fires the timer is pending for
\* start_ts + D and no callback has run; its handler runs no earlier than
\* start_ts + D; the callback is invoked with cb_flag = TIMEOUT; and after
\* that one invocation the timer is never pending again for the event.  An
\* event opened with timeout 0 has no timer and no callback.
C11_TimeoutFiresOnce ==
    \A r \in Records :
        InIndex(r) > 0 =>
            LET e == events[r]
            IN  IF e.timeout > 0
                THEN /\ cbCount[r] = 0
                     /\ \/ tpc[r] = "idle" /\ wheel.ev[r] = e.start_ts + e.timeout
                        \/ /\ tpc[r] \in {"to_del", "to_write"}
                           /\ wheel.ev[r] = NoTimer
                           /\ now >= e.start_ts + e.timeout
                ELSE IF e.cb_flag = "TIMEOUT"
                THEN /\ wheel.ev[r] = NoTimer
                     /\ \/ tpc[r] = "to_cb" /\ cbCount[r] = 0
                        \/ tpc[r] = "idle" /\ cbCount[r] = 1
                ELSE /\ e.cb_flag = "NONE" /\ wheel.ev[r] = NoTimer
                     /\ tpc[r] = "idle" /\ cbCount[r] = 0
\* The timeout of an open event has fired and its callback has run once.
C11_Witness ==
    \E r \in Records :
        /\ InIndex(r) > 0 /\ events[r].cb_flag = "TIMEOUT"
        /\ tpc[r] = "idle" /\ cbCount[r] = 1 /\ wheel.ev[r] = NoTimer

(* ------------------------------ teardown ------------------------------ *)

\* One caller that opens events and then destroys the tracker, GC disabled.
NextTeardown ==
    \/ NextIn({"t1"}, MaxOps, {FALSE})
    \/ NextEventDestroy({"t1"})
    \/ NextTimeout
    \/ NextDestroy({"t1"}, MaxOps)
SpecTeardown == InitNoGc /\ [][NextTeardown]_vars

\* The events of the index.
IndexSet == {r \in Records : InIndex(r) > 0}

\* C12: destroy accounting.  latency_tracker_destroy starts its count at 0;
\* every step it takes leaves (count + events in the index) as it was and
\* invokes no callback; and when it returns the index is empty and every
\* record has been released: the count it reports is the number of events
\* that were open when it was called.
C12_DestroyAccounting ==
    [][\A t \in Threads :
         /\ (pc[t] = "idle" /\ pc'[t] = "cl_iter") => loc'[t].nb = 0
         /\ (loc[t].op = "destroy" /\ pc[t] # "idle"
             /\ (pc'[t] # pc[t] \/ loc'[t] # loc[t])) =>
                /\ cbCount' = cbCount
                /\ loc'[t].nb + Cardinality(IndexSet)' =
                       loc[t].nb + Cardinality(IndexSet)
                /\ pc'[t] = "idle" =>
                       /\ loc'[t].ret = "DESTROYED"
                       /\ IndexSet' = {}
                       /\ kfreed' = Records]_vars
\* A full pool was destroyed and MaxEvents pending events were reported.
C12_Witness ==
    /\ loc["t1"].ret = "DESTROYED" /\ loc["t1"].nb = MaxEvents
    /\ destroyed /\ kfreed = Records

\* The same caller with the collector as create armed it.
NextShutdown ==
    \/ NextIn({"t1"}, MaxOps, {FALSE})
    \/ NextEventDestroy({"t1", GC})
    \/ NextGc
    \/ NextTimeout
    \/ NextDestroy({"t1"}, MaxOps)
SpecShutdown == InitGc /\ [][NextShutdown]_vars

\* C13 (as claimed): destroy cancellation.  Once latency_tracker_destroy
\* has released the pool and the tracker, no timeout timer and no GC timer
\* of the tracker is pending and none of their handlers is executing.
C13_DestroyCancels ==
    destroyed =>
        /\ wheel.gc = NoTimer /\ pc[GC] = "idle"
        /\ \A r \in Records : wheel.ev[r] = NoTimer /\ tpc[r] = "idle"

\* C14: rejected opens have no effect.  A latency_tracker_event_in that
\* returns ERR (key_len above the maximum) or FULL (no free record) leaves
\* the index, the free list, every record, every timer and every callback
\* count as they were: neither its returning step nor any step it took
\* before changes them, and a call that returns FULL has evicted nothing.
C14_RejectedOpenNoEffect ==
    [][\A t \in Threads :
         /\ (ops' # ops /\ pc'[t] = "idle" /\ loc'[t].op = "in"
             /\ loc'[t].ret = "ERR") =>
                UNCHANGED <<tracker, events, wheel, cbCount, lock>>
         /\ (pc[t] = "in_get" /\ pc'[t] = "idle" /\ loc'[t].ret = "FULL") =>
                /\ UNCHANGED <<tracker, events, wheel, cbCount>>
                /\ loc[t].s = Null
         /\ (loc[t].op = "in" /\ pc[t] \in {"in_lock", "uq_iter"}
             /\ pc'[t] \in {"uq_iter", "in_get"}
             /\ (pc'[t] # pc[t] \/ loc'[t] # loc[t])) =>
                UNCHANGED <<tracker, events, wheel, cbCount>>]_vars
\* An open has just been refused for want of a free record.
C14_Witness ==
    /\ loc["t1"].op = "in" /\ loc["t1"].ret = "FULL" /\ pc["t1"] = "idle"
    /\ Cardinality(IndexSet) = MaxEvents /\ FreeList = <<>>

(* ------------------------------ claim C15 ----------------------------- *)

\* Any arguments to create, the hashtable build, the collector disabled;
\* one caller that opens (unique or not) and closes.
InitPlug ==
    /\ Init
    /\ ~rhashtable
    /\ tracker.gc_period = 0 /\ tracker.gc_thresh = 0
SpecPlug == InitPlug /\ [][NextSeq]_vars

\* C15: the tracker uses the hash and match functions handed to create, or
\* jhash and memcmp when NULL was handed: the stored pointers are the
\* expected ones, and no caller crashes calling through them.
C15_PluggableFunctions ==
    /\ tracker.hash_fct = (IF args.hash_fct = "NULL" THEN "jhash"
                           ELSE args.hash_fct)
    /\ tracker.match_fct = (IF args.match_fct = "NULL" THEN "memcmp"
                            ELSE args.match_fct)
    /\ \A t \in Threads : pc[t] # "oops"

(* ------------------------------ claim C16 ----------------------------- *)

\* C16: while the callback of an event is being invoked on the close, the
\* sweep or the duplicate-key path, the event is no longer in the index.
C16_CallbackOnDetachedEvent ==
    \A c \in Ctxs :
      pc[c] \in {"ce_cb", "gc_cb", "uq_cb", "rc_cb"} => InIndex(loc[c].s) = 0

(* ------------------------------ claim C17 ----------------------------- *)

\* C17: every firing of the GC timer runs to completion: the handler never
\* waits for a lock it holds itself, and the step that ends the sweep
\* leaves the timer armed exactly when gc_period and gc_thresh are both
\* nonzero and leaves the tracker lock free.
C17_GcSweepCompletes ==
    /\ [](pc[GC] # "idle" => ~SelfDeadlock(GC))
    /\ [][(pc[GC] = "gc_iter" /\ pc'[GC] = "idle") =>
            /\ lock'.owner = NoOwner
            /\ (wheel'.gc # NoTimer) <=>
                   (tracker.gc_period # 0 /\ tracker.gc_thresh # 0)]_vars

(* ------------------------------ claim C18 ----------------------------- *)

\* C18: timeout firing does not retire.  No step of the timeout handler of
\* a record changes which events are in the index or which records are in
\* the pool; its write sets cb_flag = TIMEOUT and timeout = 0; its last
\* step invokes the callback; and a close never returns NOT_FOUND while an
\* event of exactly its key, marked TIMEOUT, is in the index.
C18_TimeoutDoesNotRetire ==
    [][/\ \A r \in Records :
            tpc'[r] # tpc[r] =>
              /\ IndexSet' = IndexSet
              /\ FreeList' = FreeList
              /\ InIndex(r)' = InIndex(r)
              /\ tpc[r] = "to_write" =>
                   events'[r].cb_flag = "TIMEOUT" /\ events'[r].timeout = 0
              /\ (tpc[r] = "to_cb" /\ tpc'[r] = "idle") => cbCount' = Called(r)
       /\ \A t \in Threads :
            (pc[t] = "ce_iter" /\ pc'[t] = "idle" /\ loc'[t].ret = "NOT_FOUND") =>
              ~\E r \in IndexSet :
                  /\ events[r].cb_flag = "TIMEOUT"
                  /\ events[r].key = memcpy_key(loc[t].key)]_vars

\* A close has found an event whose timeout handler has run: the event was
\* still in the index, marked TIMEOUT with timeout 0, its callback invoked
\* once.
C18_Witness ==
    /\ pc["t1"] = "ed_body" /\ loc["t1"].op = "out"
    /\ InIndex(loc["t1"].s) > 0
    /\ events[loc["t1"].s].cb_flag = "TIMEOUT"
    /\ events[loc["t1"].s].timeout = 0
    /\ cbCount[loc["t1"].s] = 1
    /\ tpc[loc["t1"].s] = "idle"

(* ------------------------------ claim C19 ----------------------------- *)

\* C19: the timeout handler of a record, when it writes cb_flag and timeout
\* or invokes the callback, acts on the event it was armed for: the record
\* is in the index, not cleared and back in the free list.
C19_TimeoutOnLiveRecord ==
    \A r \in Records :
      tpc[r] \in {"to_write", "to_cb"} => (InIndex(r) > 0 /\ InFree(r) = 0)

(* ------------------------------ claim C20 ----------------------------- *)

\* The rhashtable build with create(NULL, NULL, ...), the collector
\* disabled; one caller that opens (unique or not) and closes.
InitRht ==
    /\ Init
    /\ rhashtable
    /\ args = [match_fct |-> "NULL", hash_fct |-> "NULL"]
    /\ tracker.gc_period = 0 /\ tracker.gc_thresh = 0
NextRht ==
    \/ NextIn({"t1"}, MaxOps, BOOLEAN)
    \/ NextRhtUnique({"t1"})
    \/ NextRhtOut({"t1"}, MaxOps)
    \/ NextEventDestroy({"t1"})
SpecRht == InitRht /\ [][NextRht]_vars

\* C20: the lookup loops terminate under hash collision.  A lookup that has
\* passed over an event is never handed that same event again by its next
\* look-up of the hash: if it were, with nothing else running it would go
\* round the loop for ever.
C20_LookupLoopsTerminate ==
    \A t \in Threads :
      (pc[t] \in {"rc_iter", "ru_iter"} /\ loc[t].s # Null) =>
         rhashtable_lookup(Heap(tracker, events),
                           hash_fct(tracker, loc[t].key)) # loc[t].s

====
